---- MODULE Spec2Model ----
(***************************************************************************)
(* Model of the async transaction engine: the Monetary fixed-point type,   *)
(* the per-account ledger state machine (Account::apply), the account      *)
(* store, the account worker and the dispatch engine with its bounded      *)
(* worker registry.                                                        *)
(*                                                                         *)
(* The specifications of the module:                                       *)
(*   LedgerSpec    one Account driven by arbitrary transactions            *)
(*   AuditSpec     LedgerSpec with a record of what the account accepted   *)
(*   ScenarioSpec  the literal dispute sequence applied to a new account   *)
(*   MonetarySpec  a Monetary formatted and parsed back                    *)
(*   ParseSpec     Monetary::from_str on arbitrary short texts             *)
(*   ArithSpec     checked_add, checked_sub, += and -= on two Monetary     *)
(*   StorageSpec   AccountStorage called directly                          *)
(*   WorkerSpec    one account actor under its test harness                *)
(*   Spec          the parser -> dispatcher -> worker -> store pipeline    *)
(*   FairSpec      Spec with the scheduler's fairness                      *)
(*   RerunSpec     two runs, one after the other, on the same store        *)
(***************************************************************************)
EXTENDS Integers, Sequences, FiniteSets, TLC

VARIABLES
    \* ---- the Monetary type
    width,          \* width in bits of the Monetary count in this behaviour
    \* ---- LedgerSpec: one account under Account::apply
    account,        \* the Account
    before,         \* the Account as it was before the last apply
    lastTx,         \* the Transaction of the last apply
    lastResult,     \* "Ok", the AccountError of the last apply, or "None" at start
    \* ---- AuditSpec: the history of that account (not program state)
    net,            \* accepted deposits - accepted withdrawals - successful chargebacks
    acceptedDeposits,    \* transaction id -> amount of every accepted deposit
    acceptedWithdrawals, \* transaction ids of the accepted withdrawals
    lastFamily,     \* transaction id -> type of its last successful Dispute/Resolve/Chargeback
    \* ---- ScenarioSpec: a literal event list played on that account
    script,         \* the events of the scenario not applied yet
    played,         \* the events applied so far
    \* ---- MonetarySpec: Display and FromStr of one Monetary
    monetary,       \* the Monetary count
    text,           \* the text under conversion, a sequence of characters
    parsed,         \* the Result of Monetary::from_str(text)
    mon_pc,         \* "format", "parse", "done", "panicked"; "idle" elsewhere
    \* ---- ArithSpec: one arithmetic operation on two Monetary values
    arith,          \* the operation, its operands, what it returned and left
    \* ---- RerunSpec: a second run on the same store
    next_input,     \* Some(records of the file of the second run) until it starts
    \* ---- StorageSpec: direct calls of AccountStorage
    storeOp,        \* the last call: its name and account id
    storeBefore,    \* the store as it was before the last call
    lastLoad,       \* what the last load returned
    saved,          \* history: account id -> the account last saved under it
    \* ---- Spec: the pipeline
    path_ok,        \* whether File::open(path) succeeds
    cache_capacity, \* AsyncEngine.cache_capacity
    input,          \* CSV records the reader has not deserialized yet
    reader_pc,      \* the csv reader task: "open", "read", "done"
    channel,        \* the bounded mpsc channel reader -> process_transactions
    engine_pc,      \* run/process_transactions: "recv", "wait", "join", "returned"
    cache,          \* moka Cache: account id -> index of the actor whose sender it holds
    actors,         \* every actor ever spawned, in spawn order
    store,          \* AccountStorage.cache: account id -> Account
    \* ---- history (not program state)
    stream,         \* the CSV records of the input file, as given
    received,       \* per account id, the transactions the dispatcher received, in order
    applied,        \* per account id, the transactions applied by actors, in order
    dropped,        \* transactions whose sender.send failed
    evictions       \* number of cache entries evicted before end of stream

auditVars == <<net, acceptedDeposits, acceptedWithdrawals, lastFamily>>
ledgerVars == <<width, account, before, lastTx, lastResult, auditVars>>
scenarioVars == <<script, played>>
textVars == <<monetary, text, parsed, mon_pc, arith>>
storageVars == <<storeOp, storeBefore, lastLoad, saved>>
rerunVars == <<next_input>>
unitVars == <<scenarioVars, textVars, storageVars, rerunVars>>
engineVars == <<path_ok, cache_capacity, input, reader_pc, channel, engine_pc,
                cache, actors, store, received, applied, dropped, evictions, stream>>
vars == <<ledgerVars, unitVars, engineVars>>

----------------------------------------------------------------------------
(* Bounds *)

\* Width in bits of the Monetary count (the program's i64, scaled down) where
\* only its arithmetic matters.
MonetaryBits == 3
\* Width in bits of the Monetary count where its text matters: wide enough
\* for an integer part next to the DECIMAL_PLACES fraction digits.
TextBits == 15
\* Width in bits of the Monetary count in the literal scenarios: wide enough
\* for their amounts (160.0000 is 1600000 counts).
ScenarioBits == 22
\* Longest text given to Monetary::from_str in ParseSpec: one more than the
\* longest text with DECIMAL_PLACES fraction digits after "1.".
MaxText == 7
\* Transaction ids used by LedgerSpec: 1..MaxTx.
MaxTx == 2
\* Account ids used by Spec: 1..MaxAccounts.
MaxAccounts == 2
\* Longest input stream of Spec.
MaxStream == 3
\* Largest cache_capacity tried.
MaxCacheCapacity == 1
\* Most transactions sent to the actor of WorkerSpec.
MaxSends == 4
\* Capacity of the reader -> dispatcher channel (256 in the program).
backpressure == 2

----------------------------------------------------------------------------
(* Option<T> *)

None == <<>>
Some(v) == <<v>>
Unwrap(o) == o[1]

----------------------------------------------------------------------------
(* Monetary: types/monetary.rs *)

I64_MAX == 2^(width - 1) - 1
I64_MIN == -(2^(width - 1))

Monetary_new == 0

is_negative(m) == m < 0

\* The count a two's complement addition or subtraction leaves in the word.
wrapping(n) == ((n - I64_MIN) % 2^width) + I64_MIN

\* an addition that wraps around instead of reporting the overflow
wrapping_add(a, b) == Some(wrapping(a + b))

checked_add(a, b) ==
    IF a + b >= I64_MIN /\ a + b <= I64_MAX THEN Some(a + b) ELSE None

checked_sub(a, b) ==
    IF a - b >= I64_MIN /\ a - b <= I64_MAX THEN Some(a - b) ELSE None

\* impl AddAssign: on overflow the left operand is left as it was
add_assign(a, b) ==
    IF checked_add(a, b) # None THEN Unwrap(checked_add(a, b)) ELSE a

\* impl SubAssign: on overflow the left operand is left as it was
sub_assign(a, b) ==
    IF checked_sub(a, b) # None THEN Unwrap(checked_sub(a, b)) ELSE a

----------------------------------------------------------------------------
(* Monetary as text: Display and FromStr of types/monetary.rs.              *)
(* A string is a sequence of one-character strings.                         *)

DECIMAL_PLACES == 4
SCALE == 10^DECIMAL_PLACES

DigitChars == <<"0", "1", "2", "3", "4", "5", "6", "7", "8", "9">>
IsDigit(c) == \E d \in 1..10 : DigitChars[d] = c
DigitValue(c) == (CHOOSE d \in 1..10 : DigitChars[d] = c) - 1

Zeros(n) == [i \in 1..n |-> "0"]

\* i64 division and remainder: the quotient is truncated towards zero and the
\* remainder has the sign of the dividend.
i64_div(a, b) == IF a >= 0 THEN a \div b ELSE -((-a) \div b)
i64_rem(a, b) == a - b * i64_div(a, b)

\* i64::abs. The minimum has no absolute value: a build with overflow checks
\* panics, a build without them returns the minimum itself.
i64_abs(n) ==
    IF n = I64_MIN
    THEN {[panic |-> TRUE, value |-> 0], [panic |-> FALSE, value |-> I64_MIN]}
    ELSE {[panic |-> FALSE, value |-> IF n < 0 THEN -n ELSE n]}

\* i64::checked_mul.
checked_mul(a, b) ==
    LET InRange(x, y) == x <= I64_MAX \div y /\ x >= -((-I64_MIN) \div y)
    IN  IF b = 0 THEN Some(0)
        ELSE IF b > 0 THEN (IF InRange(a, b) THEN Some(a * b) ELSE None)
        ELSE (IF InRange(-a, -b) THEN Some(a * b) ELSE None)

\* The decimal digits of a natural number.
RECURSIVE ToDecimal(_)
ToDecimal(n) ==
    IF n < 10 THEN <<DigitChars[n + 1]>>
    ELSE ToDecimal(n \div 10) \o <<DigitChars[(n % 10) + 1]>>

\* "{}" of an i64.
i64_to_string(n) ==
    IF n < 0 THEN <<"-">> \o ToDecimal(-n) ELSE ToDecimal(n)

\* "{:0width$}" of an i64: zeros between the sign and the digits up to min_width.
i64_zero_padded(n, min_width) ==
    LET sign   == IF n < 0 THEN <<"-">> ELSE <<>>
        digits == ToDecimal(IF n < 0 THEN -n ELSE n)
        pad    == min_width - Len(sign) - Len(digits)
    IN  sign \o Zeros(IF pad > 0 THEN pad ELSE 0) \o digits

\* <Monetary as Display>::fmt with abs as given: the text written.
fmt_with(self, abs) ==
    LET sign     == IF self < 0 THEN <<"-">> ELSE <<>>
        integer  == i64_div(abs, SCALE)
        fraction == i64_rem(abs, SCALE)
    IN  sign \o i64_to_string(integer) \o <<".">>
             \o i64_zero_padded(fraction, DECIMAL_PLACES)

\* <Monetary as Display>::fmt: every outcome a build can produce.
fmt(self) ==
    { IF a.panic THEN [panic |-> TRUE, text |-> <<>>]
                 ELSE [panic |-> FALSE, text |-> fmt_with(self, a.value)]
      : a \in i64_abs(self) }

IsWhitespace(c) == c \in {" ", "\t", "\n", "\r"}

RECURSIVE trim_start(_)
trim_start(s) ==
    IF s # <<>> /\ IsWhitespace(Head(s)) THEN trim_start(Tail(s)) ELSE s

RECURSIVE trim_end(_)
trim_end(s) ==
    IF s # <<>> /\ IsWhitespace(s[Len(s)])
    THEN trim_end(SubSeq(s, 1, Len(s) - 1)) ELSE s

trim(s) == trim_end(trim_start(s))

\* str::split(sep).collect(): the pieces between the separators, one more
\* than there are separators.
RECURSIVE split(_, _)
split(s, sep) ==
    IF \A i \in 1..Len(s) : s[i] # sep THEN <<s>>
    ELSE LET i == CHOOSE i \in 1..Len(s) :
                     s[i] = sep /\ \A j \in 1..(i - 1) : s[j] # sep
         IN  <<SubSeq(s, 1, i - 1)>> \o split(SubSeq(s, i + 1, Len(s)), sep)

\* The value of a digit string, saturated just above the i64 range.
RECURSIVE Magnitude(_, _)
Magnitude(digits, acc) ==
    IF digits = <<>> THEN acc
    ELSE IF acc > -I64_MIN THEN acc
    ELSE Magnitude(Tail(digits), acc * 10 + DigitValue(Head(digits)))

\* str::parse::<i64>: an optional sign, then one or more decimal digits, the
\* value within the i64 range.
parse_i64(s) ==
    LET signed == s # <<>> /\ Head(s) \in {"+", "-"}
        digits == IF signed THEN Tail(s) ELSE s
        value  == IF signed /\ Head(s) = "-" THEN -Magnitude(digits, 0)
                                              ELSE Magnitude(digits, 0)
    IN  IF digits = <<>> THEN None
        ELSE IF \E i \in 1..Len(digits) : ~IsDigit(digits[i]) THEN None
        ELSE IF value < I64_MIN \/ value > I64_MAX THEN None
        ELSE Some(value)

\* Result<Monetary, MonetaryError>
MonetaryOk(v) == [result |-> "Ok", value |-> v]
MonetaryErr(error) == [result |-> error, value |-> 0]

\* <Monetary as FromStr>::from_str
from_str(untrimmed) ==
    LET value == trim(untrimmed)
        parts == split(value, ".")
    IN  IF value = <<>> THEN MonetaryErr("InvalidFormat")
        ELSE IF Len(parts) > 2 THEN MonetaryErr("InvalidFormat")
        ELSE IF parse_i64(parts[1]) = None THEN MonetaryErr("InvalidFormat")
        ELSE IF Len(parts) = 2 /\ Len(parts[2]) > DECIMAL_PLACES
             THEN MonetaryErr("InvalidFormat")
        ELSE LET integer  == Unwrap(parse_i64(parts[1]))
                 padded   == IF Len(parts) = 2
                             THEN parts[2] \o Zeros(DECIMAL_PLACES - Len(parts[2]))
                             ELSE Zeros(DECIMAL_PLACES)
             IN  IF parse_i64(padded) = None THEN MonetaryErr("InvalidFormat")
                 ELSE LET fraction == Unwrap(parse_i64(padded))
                          is_neg   == Head(value) = "-"
                          sign     == IF is_neg THEN -1 ELSE 1
                          scaled   == checked_mul(integer, SCALE)
                      IN  IF scaled = None THEN MonetaryErr("Overflow")
                          ELSE IF checked_add(Unwrap(scaled), sign * fraction) = None
                               THEN MonetaryErr("Overflow")
                          ELSE MonetaryOk(Unwrap(checked_add(Unwrap(scaled),
                                                             sign * fraction)))

----------------------------------------------------------------------------
(* Account: models/account.rs *)

TransactionType == {"Deposit", "Withdrawal", "Dispute", "Resolve", "Chargeback"}

Account_new(id) ==
    [account_id |-> id, available |-> Monetary_new, held |-> Monetary_new,
     locked |-> FALSE, ledger |-> <<>>, disputes |-> <<>>]

\* Result<(), AccountError> together with the account as the call left it
Ok(self) == [account |-> self, result |-> "Ok"]
Err(self, error) == [account |-> self, result |-> error]

total(self) == add_assign(self.available, self.held)

get_deposit(self, t) ==
    IF t.transaction_id \in DOMAIN self.ledger
    THEN Some(self.ledger[t.transaction_id]) ELSE None

\* check_dispute_in_progress that only asks whether a dispute is recorded
check_dispute_recorded(self, t) ==
    IF t.transaction_id \notin DOMAIN self.disputes THEN "DisputeNotFound"
    ELSE "Ok"

check_dispute_in_progress(self, t) ==
    IF t.transaction_id \notin DOMAIN self.disputes THEN "DisputeNotFound"
    ELSE IF self.disputes[t.transaction_id] # "InProgress" THEN "DisputeNotInProgress"
    ELSE "Ok"

\* deposit without the duplicate check
deposit_overwrite(self, t) ==
    IF t.amount = None THEN Err(self, "AmountRequired")
    ELSE IF is_negative(Unwrap(t.amount)) THEN Err(self, "NegativeAmount")
    ELSE LET amount == Unwrap(t.amount)
             sum == checked_add(self.available, amount)
         IN  IF sum = None THEN Err(self, "Overflow")
             ELSE Ok([self EXCEPT !.available = Unwrap(sum),
                                  !.ledger = (t.transaction_id :> amount) @@ self.ledger])

deposit(self, t) ==
    IF t.transaction_id \in DOMAIN self.ledger THEN Err(self, "DuplicateTransaction")
    ELSE IF t.amount = None THEN Err(self, "AmountRequired")
    ELSE IF is_negative(Unwrap(t.amount)) THEN Err(self, "NegativeAmount")
    ELSE LET amount == Unwrap(t.amount)
             sum == checked_add(self.available, amount)
         IN  IF sum = None THEN Err(self, "Overflow")
             ELSE Ok([self EXCEPT !.available = Unwrap(sum),
                                  !.ledger = (t.transaction_id :> amount) @@ self.ledger])

\* withdrawal that records its amount in the ledger as a deposit does
withdrawal_recorded(self, t) ==
    IF t.amount = None THEN Err(self, "AmountRequired")
    ELSE IF is_negative(Unwrap(t.amount)) THEN Err(self, "NegativeAmount")
    ELSE IF self.available < Unwrap(t.amount) THEN Err(self, "InsufficientFunds")
    ELSE LET diff == checked_sub(self.available, Unwrap(t.amount))
         IN  IF diff = None THEN Err(self, "Overflow")
             ELSE Ok([self EXCEPT !.available = Unwrap(diff),
                                  !.ledger = (t.transaction_id :> Unwrap(t.amount))
                                             @@ self.ledger])

\* withdrawal that counts held funds as spendable
withdrawal_from_total(self, t) ==
    IF t.amount = None THEN Err(self, "AmountRequired")
    ELSE IF is_negative(Unwrap(t.amount)) THEN Err(self, "NegativeAmount")
    ELSE IF self.available + self.held < Unwrap(t.amount)
    THEN Err(self, "InsufficientFunds")
    ELSE LET diff == checked_sub(self.available, Unwrap(t.amount))
         IN  IF diff = None THEN Err(self, "Overflow")
             ELSE Ok([self EXCEPT !.available = Unwrap(diff)])

withdrawal(self, t) ==
    IF t.amount = None THEN Err(self, "AmountRequired")
    ELSE IF is_negative(Unwrap(t.amount)) THEN Err(self, "NegativeAmount")
    ELSE IF self.available < Unwrap(t.amount) THEN Err(self, "InsufficientFunds")
    ELSE LET diff == checked_sub(self.available, Unwrap(t.amount))
         IN  IF diff = None THEN Err(self, "Overflow")
             ELSE Ok([self EXCEPT !.available = Unwrap(diff)])

\* dispute that accepts a second dispute once the first one is resolved
dispute_again_after_resolve(self, t) ==
    IF t.transaction_id \in DOMAIN self.disputes
       /\ self.disputes[t.transaction_id] # "Resolved"
    THEN Err(self, "DuplicateDispute")
    ELSE IF get_deposit(self, t) = None THEN Err(self, "TransactionNotFound")
    ELSE LET amount == Unwrap(get_deposit(self, t))
             diff == checked_sub(self.available, amount)
         IN  IF diff = None THEN Err(self, "Overflow")
             ELSE LET self1 == [self EXCEPT !.available = Unwrap(diff)]
                      sum == checked_add(self1.held, amount)
                  IN  IF sum = None THEN Err(self1, "Overflow")
                      ELSE Ok([self1 EXCEPT !.held = Unwrap(sum),
                                            !.disputes = (t.transaction_id :> "InProgress")
                                                         @@ self1.disputes])

\* dispute that also opens a dispute on an id the ledger does not hold
dispute_unknown_deposit(self, t) ==
    IF t.transaction_id \in DOMAIN self.disputes THEN Err(self, "DuplicateDispute")
    ELSE IF get_deposit(self, t) = None
    THEN Ok([self EXCEPT !.disputes = (t.transaction_id :> "InProgress") @@ self.disputes])
    ELSE LET amount == Unwrap(get_deposit(self, t))
             diff == checked_sub(self.available, amount)
         IN  IF diff = None THEN Err(self, "Overflow")
             ELSE LET self1 == [self EXCEPT !.available = Unwrap(diff)]
                      sum == checked_add(self1.held, amount)
                  IN  IF sum = None THEN Err(self1, "Overflow")
                      ELSE Ok([self1 EXCEPT !.held = Unwrap(sum),
                                            !.disputes = (t.transaction_id :> "InProgress")
                                                         @@ self1.disputes])

dispute(self, t) ==
    IF t.transaction_id \in DOMAIN self.disputes THEN Err(self, "DuplicateDispute")
    ELSE IF get_deposit(self, t) = None THEN Err(self, "TransactionNotFound")
    ELSE LET amount == Unwrap(get_deposit(self, t))
             diff == checked_sub(self.available, amount)
         IN  IF diff = None THEN Err(self, "Overflow")
             ELSE LET self1 == [self EXCEPT !.available = Unwrap(diff)]
                      sum == checked_add(self1.held, amount)
                  IN  IF sum = None THEN Err(self1, "Overflow")
                      ELSE Ok([self1 EXCEPT !.held = Unwrap(sum),
                                            !.disputes = (t.transaction_id :> "InProgress")
                                                         @@ self1.disputes])

\* resolve that credits available and keeps the funds held
resolve_keep_held(self, t) ==
    IF check_dispute_in_progress(self, t) # "Ok"
    THEN Err(self, check_dispute_in_progress(self, t))
    ELSE IF get_deposit(self, t) = None THEN Err(self, "TransactionNotFound")
    ELSE LET amount == Unwrap(get_deposit(self, t))
             sum == checked_add(self.available, amount)
         IN  IF sum = None THEN Err(self, "Overflow")
             ELSE Ok([self EXCEPT !.available = Unwrap(sum),
                                  !.disputes = (t.transaction_id :> "Resolved")
                                               @@ self.disputes])

\* resolve that releases the held funds without crediting available
resolve_without_credit(self, t) ==
    IF check_dispute_in_progress(self, t) # "Ok"
    THEN Err(self, check_dispute_in_progress(self, t))
    ELSE IF get_deposit(self, t) = None THEN Err(self, "TransactionNotFound")
    ELSE LET amount == Unwrap(get_deposit(self, t))
             diff == checked_sub(self.held, amount)
         IN  IF diff = None THEN Err(self, "Overflow")
             ELSE Ok([self EXCEPT !.held = Unwrap(diff),
                                  !.disputes = (t.transaction_id :> "Resolved")
                                               @@ self.disputes])

resolve(self, t) ==
    IF check_dispute_in_progress(self, t) # "Ok"
    THEN Err(self, check_dispute_in_progress(self, t))
    ELSE IF get_deposit(self, t) = None THEN Err(self, "TransactionNotFound")
    ELSE LET amount == Unwrap(get_deposit(self, t))
             sum == checked_add(self.available, amount)
         IN  IF sum = None THEN Err(self, "Overflow")
             ELSE LET self1 == [self EXCEPT !.available = Unwrap(sum)]
                      diff == checked_sub(self1.held, amount)
                  IN  IF diff = None THEN Err(self1, "Overflow")
                      ELSE Ok([self1 EXCEPT !.held = Unwrap(diff),
                                            !.disputes = (t.transaction_id :> "Resolved")
                                                         @@ self1.disputes])

\* chargeback that locks the account and leaves the dispute in progress
chargeback_without_status(self, t) ==
    IF check_dispute_in_progress(self, t) # "Ok"
    THEN Err(self, check_dispute_in_progress(self, t))
    ELSE IF get_deposit(self, t) = None THEN Err(self, "TransactionNotFound")
    ELSE LET amount == Unwrap(get_deposit(self, t))
             diff == checked_sub(self.held, amount)
         IN  IF diff = None THEN Err(self, "Overflow")
             ELSE Ok([self EXCEPT !.held = Unwrap(diff),
                                  !.locked = TRUE])

\* chargeback that leaves the account unlocked
chargeback_without_lock(self, t) ==
    IF check_dispute_in_progress(self, t) # "Ok"
    THEN Err(self, check_dispute_in_progress(self, t))
    ELSE IF get_deposit(self, t) = None THEN Err(self, "TransactionNotFound")
    ELSE LET amount == Unwrap(get_deposit(self, t))
             diff == checked_sub(self.held, amount)
         IN  IF diff = None THEN Err(self, "Overflow")
             ELSE Ok([self EXCEPT !.held = Unwrap(diff),
                                  !.disputes = (t.transaction_id :> "Chargeback")
                                               @@ self.disputes])

\* chargeback without check_dispute_in_progress
chargeback_unchecked(self, t) ==
    IF get_deposit(self, t) = None THEN Err(self, "TransactionNotFound")
    ELSE LET amount == Unwrap(get_deposit(self, t))
             diff == checked_sub(self.held, amount)
         IN  IF diff = None THEN Err(self, "Overflow")
             ELSE Ok([self EXCEPT !.held = Unwrap(diff),
                                  !.locked = TRUE,
                                  !.disputes = (t.transaction_id :> "Chargeback")
                                               @@ self.disputes])

chargeback(self, t) ==
    IF check_dispute_in_progress(self, t) # "Ok"
    THEN Err(self, check_dispute_in_progress(self, t))
    ELSE IF get_deposit(self, t) = None THEN Err(self, "TransactionNotFound")
    ELSE LET amount == Unwrap(get_deposit(self, t))
             diff == checked_sub(self.held, amount)
         IN  IF diff = None THEN Err(self, "Overflow")
             ELSE Ok([self EXCEPT !.held = Unwrap(diff),
                                  !.locked = TRUE,
                                  !.disputes = (t.transaction_id :> "Chargeback")
                                               @@ self.disputes])

\* apply with the locked pre-check left out
apply_without_lock_check(self, t) ==
    CASE t.transaction_type = "Deposit" -> deposit(self, t)
      [] t.transaction_type = "Withdrawal" -> withdrawal(self, t)
      [] t.transaction_type = "Dispute" -> dispute(self, t)
      [] t.transaction_type = "Resolve" -> resolve(self, t)
      [] t.transaction_type = "Chargeback" -> chargeback(self, t)

apply(self, t) ==
    IF self.locked THEN Err(self, "AccountLocked")
    ELSE CASE t.transaction_type = "Deposit" -> deposit(self, t)
           [] t.transaction_type = "Withdrawal" -> withdrawal(self, t)
           [] t.transaction_type = "Dispute" -> dispute(self, t)
           [] t.transaction_type = "Resolve" -> resolve(self, t)
           [] t.transaction_type = "Chargeback" -> chargeback(self, t)

----------------------------------------------------------------------------
(* LedgerSpec: Account::apply on one account, any transaction at each step *)

\* Amounts a transaction may carry: negative, zero, small, and the extremes.
Amounts == {-1, 0, 1, I64_MAX}

LedgerTransactions ==
    [transaction_type : {"Deposit", "Withdrawal"}, transaction_id : 1..MaxTx,
     account_id : {1}, amount : {None} \cup {Some(a) : a \in Amounts}]
    \cup
    [transaction_type : {"Dispute", "Resolve", "Chargeback"}, transaction_id : 1..MaxTx,
     account_id : {1}, amount : {None}]

NoTransaction ==
    [transaction_type |-> "None", transaction_id |-> 0, account_id |-> 0, amount |-> None]

EngineIdle ==
    /\ path_ok = TRUE
    /\ cache_capacity = 1
    /\ input = <<>>
    /\ reader_pc = "done"
    /\ channel = <<>>
    /\ engine_pc = "returned"
    /\ cache = <<>>
    /\ actors = <<>>
    /\ store = <<>>
    /\ received = <<>>
    /\ applied = <<>>
    /\ dropped = <<>>
    /\ evictions = 0
    /\ stream = <<>>

\* No arithmetic operation under way.
NoArith == [op |-> "none", lhs |-> 0, rhs |-> 0, result |-> None, after |-> 0]

\* The variables of the unit-level specifications, at rest.
UnitIdle ==
    /\ script = <<>>
    /\ played = <<>>
    /\ monetary = 0
    /\ text = <<>>
    /\ parsed = [result |-> "None", value |-> 0]
    /\ mon_pc = "idle"
    /\ arith = NoArith
    /\ next_input = None
    /\ storeOp = [op |-> "none", account_id |-> 0]
    /\ storeBefore = <<>>
    /\ lastLoad = None
    /\ saved = <<>>

HistoryIdle ==
    /\ width = MonetaryBits
    /\ net = 0
    /\ acceptedDeposits = <<>>
    /\ acceptedWithdrawals = {}
    /\ lastFamily = <<>>

LedgerInit ==
    /\ account = Account_new(1)
    /\ before = Account_new(1)
    /\ lastTx = NoTransaction
    /\ lastResult = "None"
    /\ HistoryIdle
    /\ UnitIdle
    /\ EngineIdle

\* The amount a successful chargeback of transaction_id removes from the account.
ChargedBack(transaction_id) ==
    IF transaction_id \in DOMAIN acceptedDeposits
    THEN acceptedDeposits[transaction_id]
    ELSE account.ledger[transaction_id]

\* One call account.apply(&transaction).
ApplyStep(t) ==
    /\ width' = width
    /\ before' = account
    /\ lastTx' = t
    /\ account' = apply(account, t).account
    /\ lastResult' = apply(account, t).result

\* The record of what that call accepted.
Record(t) ==
    LET ok == apply(account, t).result = "Ok"
        ty == t.transaction_type
    IN  /\ net' = IF ok /\ ty = "Deposit" THEN net + Unwrap(t.amount)
                  ELSE IF ok /\ ty = "Withdrawal" THEN net - Unwrap(t.amount)
                  ELSE IF ok /\ ty = "Chargeback" THEN net - ChargedBack(t.transaction_id)
                  ELSE net
        /\ acceptedDeposits' =
               IF ok /\ ty = "Deposit"
               THEN (t.transaction_id :> Unwrap(t.amount)) @@ acceptedDeposits
               ELSE acceptedDeposits
        /\ acceptedWithdrawals' =
               IF ok /\ ty = "Withdrawal"
               THEN acceptedWithdrawals \cup {t.transaction_id}
               ELSE acceptedWithdrawals
        /\ lastFamily' =
               IF ok /\ ty \in {"Dispute", "Resolve", "Chargeback"}
               THEN (t.transaction_id :> ty) @@ lastFamily
               ELSE lastFamily

LedgerApply ==
    \E t \in LedgerTransactions :
        /\ ApplyStep(t)
        /\ UNCHANGED <<auditVars, unitVars, engineVars>>

LedgerNext == LedgerApply

LedgerSpec == LedgerInit /\ [][LedgerNext]_vars

AuditApply ==
    \E t \in LedgerTransactions :
        /\ ApplyStep(t)
        /\ Record(t)
        /\ UNCHANGED <<unitVars, engineVars>>

AuditNext == AuditApply

AuditSpec == LedgerInit /\ [][AuditNext]_vars

----------------------------------------------------------------------------
(* AccountStorage: storage/account_storage.rs *)

AccountStorage_new == <<>>

\* load: DashMap::remove, the entry leaves the map and is handed to the caller
load(storage, account_id) ==
    IF account_id \in DOMAIN storage
    THEN [account |-> Some(storage[account_id]),
          storage |-> [k \in DOMAIN storage \ {account_id} |-> storage[k]]]
    ELSE [account |-> None, storage |-> storage]

\* save that keeps the entry the id already has
save_if_absent(storage, account_id, acct) == storage @@ (account_id :> acct)

\* save: DashMap::insert, replaces any entry of the id
save(storage, account_id, acct) == (account_id :> acct) @@ storage

----------------------------------------------------------------------------
(* The input stream *)

AccountIds == 1..MaxAccounts

\* One CSV record without its tx column: deposits to every account, a
\* withdrawal, and a record that does not deserialize.
RecordShapes ==
    [transaction_type : {"Deposit"}, account_id : AccountIds, amount : {Some(1)}]
    \cup [transaction_type : {"Withdrawal"}, account_id : {1}, amount : {Some(1)}]
    \cup [transaction_type : {"invalid"}, account_id : {1}, amount : {None}]

\* The record at position i carries transaction id i (ids are globally unique).
Streams ==
    { [i \in 1..Len(shapes) |-> [transaction_type |-> shapes[i].transaction_type,
                                 transaction_id |-> i,
                                 account_id |-> shapes[i].account_id,
                                 amount |-> shapes[i].amount]] :
        shapes \in UNION { [1..n -> RecordShapes] : n \in 0..MaxStream } }

\* reader.deserialize::<Transaction>(): Ok(transaction) or Err
deserialize(record) ==
    IF record.transaction_type \in TransactionType THEN Some(record) ELSE None

----------------------------------------------------------------------------
(* ScenarioSpec: the dispute sequence of engine/tests.rs, whole or with any *)
(* of its records left out, applied to a new account in file order.         *)

\* One CSV record of client 1 as the reader deserializes it: the amount column
\* goes through Monetary::from_str, an empty column is None.
Record1(type, transaction_id, amount_text) ==
    [transaction_type |-> type, transaction_id |-> transaction_id, account_id |-> 1,
     amount |-> IF amount_text = <<>> THEN None
                ELSE Some(from_str(amount_text).value)]

\* deposit,1,1,100.0 / deposit,1,2,50.0 / dispute,1,1, / resolve,1,1, /
\* chargeback,1,2, / deposit,1,3,10.0
DisputeSequence ==
    << Record1("Deposit", 1, <<"1", "0", "0", ".", "0">>),
       Record1("Deposit", 2, <<"5", "0", ".", "0">>),
       Record1("Dispute", 1, <<>>),
       Record1("Resolve", 1, <<>>),
       Record1("Chargeback", 2, <<>>),
       Record1("Deposit", 3, <<"1", "0", ".", "0">>) >>

\* The records of s whose positions are in keep, in order.
Excerpt(s, keep) ==
    LET F[i \in 0..Len(s)] ==
            IF i = 0 THEN <<>>
            ELSE IF i \in keep THEN Append(F[i - 1], s[i]) ELSE F[i - 1]
    IN  F[Len(s)]

Scenarios == { Excerpt(DisputeSequence, keep) : keep \in SUBSET (1..Len(DisputeSequence)) }

ScenarioInit ==
    /\ width = ScenarioBits
    /\ script \in Scenarios
    /\ played = <<>>
    /\ account = Account_new(1)
    /\ before = Account_new(1)
    /\ lastTx = NoTransaction
    /\ lastResult = "None"
    /\ net = 0
    /\ acceptedDeposits = <<>>
    /\ acceptedWithdrawals = {}
    /\ lastFamily = <<>>
    /\ monetary = 0
    /\ text = <<>>
    /\ parsed = [result |-> "None", value |-> 0]
    /\ mon_pc = "idle"
    /\ arith = NoArith
    /\ next_input = None
    /\ storeOp = [op |-> "none", account_id |-> 0]
    /\ storeBefore = <<>>
    /\ lastLoad = None
    /\ saved = <<>>
    /\ EngineIdle

ScenarioApply ==
    /\ script # <<>>
    /\ ApplyStep(Head(script))
    /\ Record(Head(script))
    /\ script' = Tail(script)
    /\ played' = Append(played, Head(script))
    /\ UNCHANGED <<textVars, storageVars, rerunVars, engineVars>>

ScenarioNext == ScenarioApply

ScenarioSpec == ScenarioInit /\ [][ScenarioNext]_vars

----------------------------------------------------------------------------
(* MonetarySpec: one Monetary written with Display, the text read back with *)
(* FromStr.                                                                 *)

MonetaryInit ==
    /\ width = TextBits
    /\ monetary \in I64_MIN..I64_MAX
    /\ text = <<>>
    /\ parsed = [result |-> "None", value |-> 0]
    /\ mon_pc = "format"
    /\ account = Account_new(1)
    /\ before = Account_new(1)
    /\ lastTx = NoTransaction
    /\ lastResult = "None"
    /\ net = 0
    /\ acceptedDeposits = <<>>
    /\ acceptedWithdrawals = {}
    /\ lastFamily = <<>>
    /\ script = <<>>
    /\ played = <<>>
    /\ arith = NoArith
    /\ next_input = None
    /\ storeOp = [op |-> "none", account_id |-> 0]
    /\ storeBefore = <<>>
    /\ lastLoad = None
    /\ saved = <<>>
    /\ EngineIdle

\* monetary.to_string()
Format ==
    /\ mon_pc = "format"
    /\ \E out \in fmt(monetary) :
          /\ text' = out.text
          /\ mon_pc' = IF out.panic THEN "panicked" ELSE "parse"
    /\ UNCHANGED <<monetary, parsed, arith, ledgerVars, scenarioVars, storageVars, rerunVars,
                   engineVars>>

\* Monetary::from_str(&text)
Parse ==
    /\ mon_pc = "parse"
    /\ parsed' = from_str(text)
    /\ mon_pc' = "done"
    /\ UNCHANGED <<monetary, text, arith, ledgerVars, scenarioVars, storageVars, rerunVars,
                   engineVars>>

MonetaryNext == Format \/ Parse

MonetarySpec == MonetaryInit /\ [][MonetaryNext]_vars

----------------------------------------------------------------------------
(* ArithSpec: checked_add, checked_sub, += and -= on any two Monetary.      *)

ArithOps == {"checked_add", "checked_sub", "add_assign", "sub_assign"}

ArithInit ==
    /\ width = MonetaryBits
    /\ arith \in [op : {"none"}, lhs : I64_MIN..I64_MAX, rhs : I64_MIN..I64_MAX,
                  result : {None}, after : {0}]
    /\ monetary = 0
    /\ text = <<>>
    /\ parsed = [result |-> "None", value |-> 0]
    /\ mon_pc = "idle"
    /\ account = Account_new(1)
    /\ before = Account_new(1)
    /\ lastTx = NoTransaction
    /\ lastResult = "None"
    /\ net = 0
    /\ acceptedDeposits = <<>>
    /\ acceptedWithdrawals = {}
    /\ lastFamily = <<>>
    /\ script = <<>>
    /\ played = <<>>
    /\ next_input = None
    /\ storeOp = [op |-> "none", account_id |-> 0]
    /\ storeBefore = <<>>
    /\ lastLoad = None
    /\ saved = <<>>
    /\ EngineIdle

\* lhs.checked_add(rhs), lhs.checked_sub(rhs), lhs += rhs or lhs -= rhs
Arith ==
    /\ arith.op = "none"
    /\ \E op \in ArithOps :
          arith' = [arith EXCEPT
              !.op = op,
              !.result = IF op = "checked_add" THEN checked_add(arith.lhs, arith.rhs)
                         ELSE IF op = "checked_sub" THEN checked_sub(arith.lhs, arith.rhs)
                         ELSE None,
              !.after = IF op = "add_assign" THEN add_assign(arith.lhs, arith.rhs)
                        ELSE IF op = "sub_assign" THEN sub_assign(arith.lhs, arith.rhs)
                        ELSE arith.lhs]
    /\ UNCHANGED <<monetary, text, parsed, mon_pc, ledgerVars, scenarioVars, storageVars, rerunVars,
                   engineVars>>

ArithNext == Arith

ArithSpec == ArithInit /\ [][ArithNext]_vars

----------------------------------------------------------------------------
(* ParseSpec: Monetary::from_str on any short text.                         *)

\* The characters of the texts: a digit, the signs, the decimal point, a
\* blank and a letter.
TextChars == {"1", "+", "-", ".", " ", "a"}

Texts == UNION { [1..n -> TextChars] : n \in 0..MaxText }

ParseInit ==
    /\ width = TextBits
    /\ monetary = 0
    /\ text \in Texts
    /\ parsed = [result |-> "None", value |-> 0]
    /\ mon_pc = "parse"
    /\ account = Account_new(1)
    /\ before = Account_new(1)
    /\ lastTx = NoTransaction
    /\ lastResult = "None"
    /\ net = 0
    /\ acceptedDeposits = <<>>
    /\ acceptedWithdrawals = {}
    /\ lastFamily = <<>>
    /\ script = <<>>
    /\ played = <<>>
    /\ arith = NoArith
    /\ next_input = None
    /\ storeOp = [op |-> "none", account_id |-> 0]
    /\ storeBefore = <<>>
    /\ lastLoad = None
    /\ saved = <<>>
    /\ EngineIdle

ParseNext == Parse

ParseSpec == ParseInit /\ [][ParseNext]_vars

----------------------------------------------------------------------------
(* Spec: AsyncEngine::run *)

LedgerIdle ==
    /\ account = Account_new(1)
    /\ before = Account_new(1)
    /\ lastTx = NoTransaction
    /\ lastResult = "None"
    /\ HistoryIdle

Init ==
    /\ LedgerIdle
    /\ UnitIdle
    /\ path_ok \in BOOLEAN
    /\ cache_capacity \in 1..MaxCacheCapacity
    /\ input \in Streams
    /\ stream = input
    /\ reader_pc = "open"
    /\ channel = <<>>
    /\ engine_pc = "recv"
    /\ cache = <<>>
    /\ actors = <<>>
    /\ store = AccountStorage_new
    /\ received = [a \in AccountIds |-> <<>>]
    /\ applied = [a \in AccountIds |-> <<>>]
    /\ dropped = <<>>
    /\ evictions = 0

\* ---- the csv reader task (spawn_csv_reader)

\* the reader goes on to read although File::open failed
ReaderOpen_ignore_error ==
    /\ reader_pc = "open"
    /\ reader_pc' = "read"
    /\ UNCHANGED <<ledgerVars, unitVars, stream, path_ok, cache_capacity, input, channel, engine_pc,
                   cache, actors, store, received, applied, dropped, evictions>>

ReaderOpen ==
    /\ reader_pc = "open"
    /\ reader_pc' = IF path_ok THEN "read" ELSE "done"
    /\ UNCHANGED <<ledgerVars, unitVars, stream, path_ok, cache_capacity, input, channel, engine_pc,
                   cache, actors, store, received, applied, dropped, evictions>>

\* Ok(transaction) sent on a channel without a capacity
ReaderSend_unbounded ==
    /\ reader_pc = "read"
    /\ input # <<>>
    /\ deserialize(Head(input)) # None
    /\ channel' = Append(channel, Unwrap(deserialize(Head(input))))
    /\ input' = Tail(input)
    /\ UNCHANGED <<ledgerVars, unitVars, stream, path_ok, cache_capacity, reader_pc, engine_pc,
                   cache, actors, store, received, applied, dropped, evictions>>

\* Ok(transaction): blocking_send waits while the channel is full.  The
\* receiver is dropped only after the reader has finished, so the send never fails.
ReaderSend ==
    /\ reader_pc = "read"
    /\ input # <<>>
    /\ deserialize(Head(input)) # None
    /\ Len(channel) < backpressure
    /\ channel' = Append(channel, Unwrap(deserialize(Head(input))))
    /\ input' = Tail(input)
    /\ UNCHANGED <<ledgerVars, unitVars, stream, path_ok, cache_capacity, reader_pc, engine_pc,
                   cache, actors, store, received, applied, dropped, evictions>>

\* Err(error): the reader gives the file up at the first record in error
ReaderSkip_stop ==
    /\ reader_pc = "read"
    /\ input # <<>>
    /\ deserialize(Head(input)) = None
    /\ reader_pc' = "done"
    /\ UNCHANGED <<ledgerVars, unitVars, stream, path_ok, cache_capacity, input, channel, engine_pc,
                   cache, actors, store, received, applied, dropped, evictions>>

\* Err(error): the record is logged and skipped
ReaderSkip ==
    /\ reader_pc = "read"
    /\ input # <<>>
    /\ deserialize(Head(input)) = None
    /\ input' = Tail(input)
    /\ UNCHANGED <<ledgerVars, unitVars, stream, path_ok, cache_capacity, reader_pc, channel, engine_pc,
                   cache, actors, store, received, applied, dropped, evictions>>

\* end of file: the closure returns and its channel sender is dropped
ReaderEnd ==
    /\ reader_pc = "read"
    /\ input = <<>>
    /\ reader_pc' = "done"
    /\ UNCHANGED <<ledgerVars, unitVars, stream, path_ok, cache_capacity, input, channel, engine_pc,
                   cache, actors, store, received, applied, dropped, evictions>>

\* ---- the account actor (AccountActor::spawn)

\* The task a freshly spawned actor starts as: nothing loaded yet.
NewActor(account_id) ==
    [account_id |-> account_id, pc |-> "load",
     account |-> Account_new(account_id), inbox |-> <<>>]

\* The actor's receiver sees the channel closed: no sender is left.  Senders are
\* the cache entry and the clone the dispatcher holds while it sends.
InboxClosed(w) == \A id \in DOMAIN cache : cache[id] # w

ActorLoad(w) ==
    /\ actors[w].pc = "load"
    /\ LET loaded == load(store, actors[w].account_id)
       IN  /\ store' = loaded.storage
           /\ actors' = [actors EXCEPT
                  ![w].pc = "recv",
                  ![w].account = IF loaded.account # None THEN Unwrap(loaded.account)
                                 ELSE Account_new(actors[w].account_id)]
    /\ UNCHANGED <<ledgerVars, unitVars, stream, path_ok, cache_capacity, input, reader_pc, channel,
                   engine_pc, cache, received, applied, dropped, evictions>>

ActorApply(w) ==
    /\ actors[w].pc = "recv"
    /\ actors[w].inbox # <<>>
    /\ LET t == Head(actors[w].inbox)
       IN  /\ actors' = [actors EXCEPT ![w].account = apply(actors[w].account, t).account,
                                       ![w].inbox = Tail(actors[w].inbox)]
           /\ applied' = [applied EXCEPT ![t.account_id] = Append(@, t)]
    /\ UNCHANGED <<ledgerVars, unitVars, stream, path_ok, cache_capacity, input, reader_pc, channel,
                   engine_pc, cache, store, received, dropped, evictions>>

\* a worker that saves only an account some event has changed
ActorSave_if_changed(w) ==
    /\ actors[w].pc = "recv"
    /\ actors[w].inbox = <<>>
    /\ InboxClosed(w)
    /\ store' = IF actors[w].account = Account_new(actors[w].account_id) THEN store
                ELSE save(store, actors[w].account_id, actors[w].account)
    /\ actors' = [actors EXCEPT ![w].pc = "exit"]
    /\ UNCHANGED <<ledgerVars, unitVars, stream, path_ok, cache_capacity, input, reader_pc, channel,
                   engine_pc, cache, received, applied, dropped, evictions>>

\* the inbox is closed, whether or not it is drained
ActorSave_without_drain(w) ==
    /\ actors[w].pc = "recv"
    /\ InboxClosed(w)
    /\ store' = save(store, actors[w].account_id, actors[w].account)
    /\ actors' = [actors EXCEPT ![w].pc = "exit", ![w].inbox = <<>>]
    /\ UNCHANGED <<ledgerVars, unitVars, stream, path_ok, cache_capacity, input, reader_pc, channel,
                   engine_pc, cache, received, applied, dropped, evictions>>

\* recv() returns None (closed and drained): leave the loop and save
ActorSave(w) ==
    /\ actors[w].pc = "recv"
    /\ actors[w].inbox = <<>>
    /\ InboxClosed(w)
    /\ store' = save(store, actors[w].account_id, actors[w].account)
    /\ actors' = [actors EXCEPT ![w].pc = "exit"]
    /\ UNCHANGED <<ledgerVars, unitVars, stream, path_ok, cache_capacity, input, reader_pc, channel,
                   engine_pc, cache, received, applied, dropped, evictions>>

\* the task ends: its clone of the guard sender is dropped
ActorExit(w) ==
    /\ actors[w].pc = "exit"
    /\ actors' = [actors EXCEPT ![w].pc = "done"]
    /\ UNCHANGED <<ledgerVars, unitVars, stream, path_ok, cache_capacity, input, reader_pc, channel,
                   engine_pc, cache, store, received, applied, dropped, evictions>>

\* ---- the dispatcher (process_transactions)

\* cache.get_with(account_id, spawn) then sender.send(transaction)
Dispatch ==
    /\ engine_pc = "recv"
    /\ channel # <<>>
    /\ LET t == Head(channel)
           hit == t.account_id \in DOMAIN cache
           w == IF hit THEN cache[t.account_id] ELSE Len(actors) + 1
           spawned == IF hit THEN actors ELSE Append(actors, NewActor(t.account_id))
           send_ok == spawned[w].pc \in {"load", "recv"}
       IN  /\ channel' = Tail(channel)
           /\ cache' = IF hit THEN cache ELSE (t.account_id :> w) @@ cache
           /\ actors' = IF send_ok
                        THEN [spawned EXCEPT ![w].inbox = Append(@, t)]
                        ELSE spawned
           /\ dropped' = IF send_ok THEN dropped ELSE Append(dropped, t)
           /\ received' = [received EXCEPT ![t.account_id] = Append(@, t)]
    /\ UNCHANGED <<ledgerVars, unitVars, stream, path_ok, cache_capacity, input, reader_pc, engine_pc,
                   store, applied, evictions>>

\* an eviction that cancels the worker: what its inbox holds is discarded
Evict_cancel(id) ==
    /\ cache' = [k \in DOMAIN cache \ {id} |-> cache[k]]
    /\ evictions' = evictions + 1
    /\ actors' = [actors EXCEPT ![cache[id]].inbox = <<>>]
    /\ UNCHANGED <<ledgerVars, unitVars, stream, path_ok, cache_capacity, input, reader_pc, channel,
                   engine_pc, store, received, applied, dropped>>

\* an eviction that is counted but leaves the entry in the cache
Evict_nothing(id) ==
    /\ cache' = cache
    /\ evictions' = evictions + 1
    /\ UNCHANGED <<ledgerVars, unitVars, stream, path_ok, cache_capacity, input, reader_pc, channel,
                   engine_pc, actors, store, received, applied, dropped>>

\* The cache drops an entry: its sender is dropped, nothing else happens
\* (the eviction listener only logs).
Evict(id) ==
    /\ cache' = [k \in DOMAIN cache \ {id} |-> cache[k]]
    /\ evictions' = evictions + 1
    /\ UNCHANGED <<ledgerVars, unitVars, stream, path_ok, cache_capacity, input, reader_pc, channel,
                   engine_pc, actors, store, received, applied, dropped>>

\* max_capacity: the cache holds more entries than its capacity
EvictCapacity(id) ==
    /\ engine_pc = "recv"
    /\ id \in DOMAIN cache
    /\ Cardinality(DOMAIN cache) > cache_capacity
    /\ Evict(id)

\* time_to_idle: the entry has not been accessed for cache_timeout
EvictIdle(id) ==
    /\ engine_pc = "recv"
    /\ id \in DOMAIN cache
    /\ Evict(id)

\* end of stream without emptying the cache
Shutdown_keep_cache ==
    /\ engine_pc = "recv"
    /\ channel = <<>>
    /\ reader_pc = "done"
    /\ engine_pc' = "wait"
    /\ UNCHANGED <<ledgerVars, unitVars, stream, path_ok, cache_capacity, input, reader_pc, channel,
                   cache, actors, store, received, applied, dropped, evictions>>

\* receiver.recv() returns None: invalidate_all, run_pending_tasks, drop(cache),
\* drop(guard_sender)
Shutdown ==
    /\ engine_pc = "recv"
    /\ channel = <<>>
    /\ reader_pc = "done"
    /\ cache' = <<>>
    /\ engine_pc' = "wait"
    /\ UNCHANGED <<ledgerVars, unitVars, stream, path_ok, cache_capacity, input, reader_pc, channel,
                   actors, store, received, applied, dropped, evictions>>

\* returns without waiting for the guard senders to be dropped
AwaitGuards_no_wait ==
    /\ engine_pc = "wait"
    /\ engine_pc' = "join"
    /\ UNCHANGED <<ledgerVars, unitVars, stream, path_ok, cache_capacity, input, reader_pc, channel,
                   cache, actors, store, received, applied, dropped, evictions>>

\* guard_receiver.recv() returns None once every guard sender is dropped
AwaitGuards ==
    /\ engine_pc = "wait"
    /\ \A w \in DOMAIN actors : actors[w].pc = "done"
    /\ engine_pc' = "join"
    /\ UNCHANGED <<ledgerVars, unitVars, stream, path_ok, cache_capacity, input, reader_pc, channel,
                   cache, actors, store, received, applied, dropped, evictions>>

\* run: csv_handle.await, then return processing_result (Ok)
JoinReader ==
    /\ engine_pc = "join"
    /\ reader_pc = "done"
    /\ engine_pc' = "returned"
    /\ UNCHANGED <<ledgerVars, unitVars, stream, path_ok, cache_capacity, input, reader_pc, channel,
                   cache, actors, store, received, applied, dropped, evictions>>

ReaderNext == ReaderOpen \/ ReaderSend \/ ReaderSkip \/ ReaderEnd

EngineNext == Dispatch \/ Shutdown \/ AwaitGuards \/ JoinReader

ActorNext(w) ==
    /\ w \in DOMAIN actors
    /\ (ActorLoad(w) \/ ActorApply(w) \/ ActorSave(w) \/ ActorExit(w))

Next ==
    \/ ReaderOpen
    \/ ReaderSend
    \/ ReaderSkip
    \/ ReaderEnd
    \/ Dispatch
    \/ \E id \in AccountIds : EvictCapacity(id)
    \/ \E id \in AccountIds : EvictIdle(id)
    \/ Shutdown
    \/ AwaitGuards
    \/ JoinReader
    \/ \E w \in DOMAIN actors : ActorLoad(w)
    \/ \E w \in DOMAIN actors : ActorApply(w)
    \/ \E w \in DOMAIN actors : ActorSave(w)
    \/ \E w \in DOMAIN actors : ActorExit(w)

Spec == Init /\ [][Next]_vars

\* The executor runs every task that can run: the reader, the dispatcher and
\* each actor.  Evictions are under no obligation to happen.
FairSpec ==
    /\ Spec
    /\ WF_vars(ReaderNext)
    /\ WF_vars(EngineNext)
    /\ \A w \in 1..MaxStream : WF_vars(ActorNext(w))

----------------------------------------------------------------------------
(* RerunSpec: engine.run on one file and, once it has returned, on a second *)
(* file against the same store, as test_cache_time_eviction does.           *)

\* The two files are the two parts of one stream, cut at any place.
RerunInit ==
    /\ LedgerIdle
    /\ script = <<>>
    /\ played = <<>>
    /\ monetary = 0
    /\ text = <<>>
    /\ parsed = [result |-> "None", value |-> 0]
    /\ mon_pc = "idle"
    /\ arith = NoArith
    /\ storeOp = [op |-> "none", account_id |-> 0]
    /\ storeBefore = <<>>
    /\ lastLoad = None
    /\ saved = <<>>
    /\ path_ok \in BOOLEAN
    /\ cache_capacity \in 1..MaxCacheCapacity
    /\ \E whole \in Streams : \E cut \in 0..Len(whole) :
          /\ input = SubSeq(whole, 1, cut)
          /\ next_input = Some(SubSeq(whole, cut + 1, Len(whole)))
    /\ stream = input
    /\ reader_pc = "open"
    /\ channel = <<>>
    /\ engine_pc = "recv"
    /\ cache = <<>>
    /\ actors = <<>>
    /\ store = AccountStorage_new
    /\ received = [a \in AccountIds |-> <<>>]
    /\ applied = [a \in AccountIds |-> <<>>]
    /\ dropped = <<>>
    /\ evictions = 0

\* engine.run(second file): a new channel, a new reader and a new, empty
\* cache; the engine, and so the store, is the one of the first run.
Rerun ==
    /\ engine_pc = "returned"
    /\ next_input # None
    /\ input' = Unwrap(next_input)
    /\ stream' = stream \o Unwrap(next_input)
    /\ next_input' = None
    /\ reader_pc' = "open"
    /\ channel' = <<>>
    /\ cache' = <<>>
    /\ engine_pc' = "recv"
    /\ UNCHANGED <<ledgerVars, scenarioVars, textVars, storageVars, path_ok, cache_capacity,
                   actors, store, received, applied, dropped, evictions>>

RerunNext ==
    \/ ReaderOpen
    \/ ReaderSend
    \/ ReaderSkip
    \/ ReaderEnd
    \/ Dispatch
    \/ \E id \in AccountIds : EvictCapacity(id)
    \/ \E id \in AccountIds : EvictIdle(id)
    \/ Shutdown
    \/ AwaitGuards
    \/ JoinReader
    \/ \E w \in DOMAIN actors : ActorLoad(w)
    \/ \E w \in DOMAIN actors : ActorApply(w)
    \/ \E w \in DOMAIN actors : ActorSave(w)
    \/ \E w \in DOMAIN actors : ActorExit(w)
    \/ Rerun

RerunSpec == RerunInit /\ [][RerunNext]_vars

----------------------------------------------------------------------------
(* StorageSpec: AccountStorage called directly, as storage/tests.rs does.   *)

\* The accounts a caller saves under account_id.
StoredAccounts(account_id) ==
    { [Account_new(account_id) EXCEPT !.available = v] : v \in 0..I64_MAX }

\* AccountStorage::new()
StorageInit ==
    /\ LedgerIdle
    /\ UnitIdle
    /\ EngineIdle

\* storage.save(account_id, account)
StorageSave ==
    /\ \E account_id \in AccountIds : \E acct \in StoredAccounts(account_id) :
          /\ store' = save(store, account_id, acct)
          /\ storeOp' = [op |-> "save", account_id |-> account_id]
          /\ saved' = (account_id :> acct) @@ saved
    /\ storeBefore' = store
    /\ UNCHANGED <<lastLoad, ledgerVars, scenarioVars, textVars, rerunVars, stream, path_ok,
                   cache_capacity, input, reader_pc, channel, engine_pc, cache, actors,
                   received, applied, dropped, evictions>>

\* storage.load(account_id)
StorageLoad ==
    /\ \E account_id \in AccountIds :
          /\ lastLoad' = load(store, account_id).account
          /\ store' = load(store, account_id).storage
          /\ storeOp' = [op |-> "load", account_id |-> account_id]
    /\ storeBefore' = store
    /\ UNCHANGED <<saved, ledgerVars, scenarioVars, textVars, rerunVars, stream, path_ok,
                   cache_capacity, input, reader_pc, channel, engine_pc, cache, actors,
                   received, applied, dropped, evictions>>

StorageNext == StorageSave \/ StorageLoad

StorageSpec == StorageInit /\ [][StorageNext]_vars

----------------------------------------------------------------------------
(* WorkerSpec: one actor driven as by ActorHarness of actors/tests.rs: it   *)
(* is spawned on an empty store, sent transactions, and shut down.          *)

\* What the harness may send: deposits that reach the largest Monetary,
\* their disputes, and a withdrawal and a deposit that the ledger may reject.
HarnessTransactions ==
    { [transaction_type |-> "Deposit", transaction_id |-> 1, account_id |-> 1,
       amount |-> Some(1)],
      [transaction_type |-> "Deposit", transaction_id |-> 2, account_id |-> 1,
       amount |-> Some(I64_MAX)],
      [transaction_type |-> "Withdrawal", transaction_id |-> 3, account_id |-> 1,
       amount |-> Some(I64_MAX)],
      [transaction_type |-> "Dispute", transaction_id |-> 1, account_id |-> 1,
       amount |-> None],
      [transaction_type |-> "Dispute", transaction_id |-> 2, account_id |-> 1,
       amount |-> None] }

\* ActorHarness::new(1, storage) on AccountStorage::new()
WorkerInit ==
    /\ LedgerIdle
    /\ UnitIdle
    /\ path_ok = TRUE
    /\ cache_capacity = 1
    /\ input = <<>>
    /\ stream = <<>>
    /\ reader_pc = "done"
    /\ channel = <<>>
    /\ engine_pc = "harness"
    /\ cache = (1 :> 1)
    /\ actors = <<NewActor(1)>>
    /\ store = AccountStorage_new
    /\ received = [a \in AccountIds |-> <<>>]
    /\ applied = [a \in AccountIds |-> <<>>]
    /\ dropped = <<>>
    /\ evictions = 0

\* ActorHarness::send
HarnessSend ==
    /\ engine_pc = "harness"
    /\ Len(received[1]) < MaxSends
    /\ \E t \in HarnessTransactions :
          /\ actors' = [actors EXCEPT ![1].inbox = Append(@, t)]
          /\ received' = [received EXCEPT ![1] = Append(@, t)]
    /\ UNCHANGED <<ledgerVars, unitVars, stream, path_ok, cache_capacity, input, reader_pc,
                   channel, engine_pc, cache, store, applied, dropped, evictions>>

\* ActorHarness::shutdown: the sender is dropped
HarnessShutdown ==
    /\ engine_pc = "harness"
    /\ cache' = <<>>
    /\ engine_pc' = "wait"
    /\ UNCHANGED <<ledgerVars, unitVars, stream, path_ok, cache_capacity, input, reader_pc,
                   channel, actors, store, received, applied, dropped, evictions>>

\* ActorHarness::shutdown: guard_receiver.recv() returns once the actor is gone
HarnessJoin ==
    /\ engine_pc = "wait"
    /\ actors[1].pc = "done"
    /\ engine_pc' = "returned"
    /\ UNCHANGED <<ledgerVars, unitVars, stream, path_ok, cache_capacity, input, reader_pc,
                   channel, cache, actors, store, received, applied, dropped, evictions>>

WorkerNext ==
    \/ HarnessSend
    \/ HarnessShutdown
    \/ HarnessJoin
    \/ ActorLoad(1)
    \/ ActorApply(1)
    \/ ActorSave(1)
    \/ ActorExit(1)

WorkerSpec == WorkerInit /\ [][WorkerNext]_vars

----------------------------------------------------------------------------
(* Ledger claims, checked under LedgerSpec *)

Representable(n) == n >= I64_MIN /\ n <= I64_MAX

\* C8: whenever apply returns an error, the account (available, held, locked,
\* ledger, disputes) is exactly as it was before the call.
C8_NoPartialMutation ==
    lastResult \notin {"Ok", "None"} => account = before

\* C9: once locked is true, every later apply returns AccountLocked whatever
\* the transaction is, and the account never changes again.
C9_LockIsolation ==
    [][account.locked => (lastResult' = "AccountLocked" /\ account' = account)]_vars

\* C9 witness: an apply was tried on an account that a chargeback had locked.
C9_Witness ==
    /\ before.locked
    /\ account.locked
    /\ lastResult = "AccountLocked"
    /\ \E tx \in DOMAIN account.disputes : account.disputes[tx] = "Chargeback"

\* C23: deposit error precedence. On an unlocked account a Deposit without
\* an amount returns AmountRequired and a Deposit with a negative amount
\* returns NegativeAmount, also when its transaction id is already in the
\* ledger; DuplicateTransaction is returned only for a deposit whose amount is
\* present and not negative.
C23_DepositErrorPrecedence ==
    (lastTx.transaction_type = "Deposit" /\ ~before.locked) =>
        /\ lastTx.amount = None => lastResult = "AmountRequired"
        /\ (lastTx.amount # None /\ Unwrap(lastTx.amount) < 0)
              => lastResult = "NegativeAmount"
        /\ lastResult = "DuplicateTransaction"
              => (lastTx.amount # None /\ Unwrap(lastTx.amount) >= 0)

\* Supporting C23: what deposit does return. The duplicate check comes first;
\* the amount checks decide only for an id that is not in the ledger.
DepositDuplicateFirst ==
    (lastTx.transaction_type = "Deposit" /\ ~before.locked) =>
        IF lastTx.transaction_id \in DOMAIN before.ledger
        THEN lastResult = "DuplicateTransaction"
        ELSE /\ lastTx.amount = None => lastResult = "AmountRequired"
             /\ (lastTx.amount # None /\ Unwrap(lastTx.amount) < 0)
                   => lastResult = "NegativeAmount"

\* C24: every transaction id in disputes is also in ledger, in every
\* reachable state, so a Resolve or a Chargeback never returns
\* TransactionNotFound: once check_dispute_in_progress has passed, the
\* deposit lookup cannot fail.
C24_DisputesInLedger ==
    /\ DOMAIN account.disputes \subseteq DOMAIN account.ledger
    /\ lastTx.transaction_type \in {"Resolve", "Chargeback"}
          => lastResult # "TransactionNotFound"

\* C24 witness: a Resolve or Chargeback passed the dispute check and the
\* deposit lookup on an account that holds disputes.
C24_Witness ==
    /\ lastTx.transaction_type \in {"Resolve", "Chargeback"}
    /\ lastResult = "Ok"
    /\ lastTx.transaction_id \in DOMAIN before.disputes
    /\ lastTx.transaction_id \in DOMAIN before.ledger

\* C25, as stated: disputes are one-shot. A Dispute is accepted only for an
\* id that has no dispute recorded, a recorded dispute is never forgotten, and
\* every later Dispute on that id returns DuplicateDispute and changes
\* nothing, also after the first dispute was resolved.
C25_DisputeOneShot ==
    /\ [](lastTx.transaction_type = "Dispute"
            => /\ lastResult = "Ok" => lastTx.transaction_id \notin DOMAIN before.disputes
               /\ lastTx.transaction_id \in DOMAIN before.disputes
                     => (lastResult = "DuplicateDispute" /\ account = before))
    /\ [][DOMAIN account.disputes \subseteq DOMAIN account'.disputes]_vars

\* C25, amended: the same, except that on a locked account the later Dispute
\* is rejected with AccountLocked, the pre-check of apply coming first.
C25_DisputeOneShotUnlessLocked ==
    /\ [](lastTx.transaction_type = "Dispute"
            => /\ lastResult = "Ok" => lastTx.transaction_id \notin DOMAIN before.disputes
               /\ lastTx.transaction_id \in DOMAIN before.disputes
                     => /\ lastResult = IF before.locked THEN "AccountLocked"
                                                          ELSE "DuplicateDispute"
                        /\ account = before)
    /\ [][DOMAIN account.disputes \subseteq DOMAIN account'.disputes]_vars

\* C25 witness: a second Dispute on an id whose first dispute was resolved
\* was rejected as a duplicate.
C25_Witness ==
    /\ lastTx.transaction_type = "Dispute"
    /\ lastTx.transaction_id \in DOMAIN before.disputes
    /\ before.disputes[lastTx.transaction_id] = "Resolved"
    /\ lastResult = "DuplicateDispute"
    /\ account = before

\* C26: a Withdrawal on an unlocked account succeeds exactly when its amount
\* is present, not negative and not greater than available, held funds not
\* counting; on success available decreases by exactly the amount and nothing
\* else changes; a present, non-negative amount greater than available returns
\* InsufficientFunds; a withdrawal of exactly available leaves zero.
C26_WithdrawalRule ==
    (lastTx.transaction_type = "Withdrawal" /\ ~before.locked) =>
        LET present == lastTx.amount # None
            valid == present /\ Unwrap(lastTx.amount) >= 0
        IN  /\ lastResult = "Ok"
                  <=> (valid /\ Unwrap(lastTx.amount) <= before.available)
            /\ lastResult = "Ok"
                  => /\ account = [before EXCEPT
                                      !.available = before.available - Unwrap(lastTx.amount)]
                     /\ Representable(account.available)
                     /\ Unwrap(lastTx.amount) = before.available => account.available = 0
            /\ (valid /\ Unwrap(lastTx.amount) > before.available)
                  => (lastResult = "InsufficientFunds" /\ account = before)

\* C26 witness: with funds held, a withdrawal of exactly the available amount
\* succeeded and left available at zero.
C26_Witness ==
    /\ lastTx.transaction_type = "Withdrawal"
    /\ ~before.locked
    /\ lastResult = "Ok"
    /\ before.held > 0
    /\ before.available > 0
    /\ Unwrap(lastTx.amount) = before.available
    /\ account.available = 0

\* The account after amount has moved from available to held.
Moved(self, amount) ==
    [self EXCEPT !.available = self.available - amount, !.held = self.held + amount]

\* C27: Dispute then Resolve is a balance round trip. A successful Dispute on
\* deposit tx moves exactly ledger[tx] from available to held, available + held
\* unchanged; a successful Resolve moves the same amount back; and after a
\* successful Dispute directly followed by a successful Resolve of the same id
\* the account is as before the Dispute except for disputes[tx] = Resolved.
C27_DisputeResolveRoundTrip ==
    /\ []((lastTx.transaction_type = "Dispute" /\ lastResult = "Ok")
            => LET tx == lastTx.transaction_id
               IN  /\ tx \in DOMAIN before.ledger
                   /\ account = [Moved(before, before.ledger[tx]) EXCEPT
                                   !.disputes = (tx :> "InProgress") @@ before.disputes]
                   /\ account.available + account.held = before.available + before.held)
    /\ []((lastTx.transaction_type = "Resolve" /\ lastResult = "Ok")
            => LET tx == lastTx.transaction_id
               IN  /\ tx \in DOMAIN before.ledger
                   /\ account = [Moved(before, 0 - before.ledger[tx]) EXCEPT
                                   !.disputes = (tx :> "Resolved") @@ before.disputes]
                   /\ account.available + account.held = before.available + before.held)
    /\ [][(/\ lastTx.transaction_type = "Dispute"
           /\ lastResult = "Ok"
           /\ lastTx'.transaction_type = "Resolve"
           /\ lastTx'.transaction_id = lastTx.transaction_id
           /\ lastResult' = "Ok")
            => account' = [before EXCEPT
                             !.disputes = (lastTx.transaction_id :> "Resolved")
                                          @@ before.disputes]]_vars

\* C27 witness: a Resolve gave a positive disputed amount back to available.
C27_Witness ==
    /\ lastTx.transaction_type = "Resolve"
    /\ lastResult = "Ok"
    /\ before.disputes[lastTx.transaction_id] = "InProgress"
    /\ before.ledger[lastTx.transaction_id] > 0
    /\ account.available = before.available + before.ledger[lastTx.transaction_id]
    /\ account.held = before.held - before.ledger[lastTx.transaction_id]
    /\ account.disputes[lastTx.transaction_id] = "Resolved"

\* C28: a successful Chargeback on deposit tx decreases held by exactly
\* ledger[tx], leaves available unchanged (so available + held decreases by
\* that amount), sets locked and sets disputes[tx] to Chargeback, all in the
\* one step; the ledger stays as it was.
C28_ChargebackStep ==
    (lastTx.transaction_type = "Chargeback" /\ lastResult = "Ok") =>
        LET tx == lastTx.transaction_id
        IN  /\ tx \in DOMAIN before.ledger
            /\ ~before.locked
            /\ account = [before EXCEPT
                            !.held = before.held - before.ledger[tx],
                            !.locked = TRUE,
                            !.disputes = (tx :> "Chargeback") @@ before.disputes]
            /\ Representable(account.held)
            /\ account.available + account.held
                  = before.available + before.held - before.ledger[tx]

\* C28 witness: a Chargeback of a positive deposit succeeded and locked the
\* account.
C28_Witness ==
    /\ lastTx.transaction_type = "Chargeback"
    /\ lastResult = "Ok"
    /\ before.ledger[lastTx.transaction_id] > 0
    /\ ~before.locked
    /\ account.locked
    /\ account.held = before.held - before.ledger[lastTx.transaction_id]
    /\ account.disputes[lastTx.transaction_id] = "Chargeback"

\* The transaction ids of self whose dispute is in progress.
InProgress(self) ==
    {tx \in DOMAIN self.disputes : self.disputes[tx] = "InProgress"}

RECURSIVE LedgerSum(_, _)
\* The sum of ledger[tx] over the transaction ids txs.
LedgerSum(self, txs) ==
    IF txs = {} THEN 0
    ELSE LET tx == CHOOSE x \in txs : TRUE
         IN  self.ledger[tx] + LedgerSum(self, txs \ {tx})

\* C36: in every reachable account state held is not negative and is the sum
\* of ledger[tx] over the ids whose dispute is InProgress; so held is at least
\* the amount of every dispute in progress, and the held - amount of a Resolve
\* or Chargeback never goes below zero (nor overflows).
C36_HeldIsDisputedSum ==
    /\ account.held >= 0
    /\ InProgress(account) \subseteq DOMAIN account.ledger
    /\ account.held = LedgerSum(account, InProgress(account))
    /\ \A tx \in InProgress(account) : account.held - account.ledger[tx] >= 0
    /\ (lastTx.transaction_type \in {"Resolve", "Chargeback"}
          /\ lastTx.transaction_id \in InProgress(before))
        => /\ lastResult # "Overflow" \/ lastTx.transaction_type = "Resolve"
           /\ lastResult = "Ok"
                 => account.held = before.held - before.ledger[lastTx.transaction_id]

\* C36 witness: with two positive deposits under dispute, one dispute was
\* resolved and held went down to the amount of the other.
C36_Witness ==
    /\ lastTx.transaction_type = "Resolve"
    /\ lastResult = "Ok"
    /\ Cardinality(InProgress(before)) = 2
    /\ \A tx \in InProgress(before) : before.ledger[tx] > 0
    /\ Cardinality(InProgress(account)) = 1
    /\ account.held = LedgerSum(account, InProgress(account))
    /\ account.held > 0

\* The transaction ids of self that were charged back.
ChargedBackIds(self) ==
    {tx \in DOMAIN self.disputes : self.disputes[tx] = "Chargeback"}

\* C37: in every reachable account state locked is true if and only if some
\* transaction id has dispute status Chargeback; at most one id of the account
\* ever has that status, and it keeps it; locked never returns from true to
\* false.
C37_LockedIffChargeback ==
    /\ [](account.locked <=> ChargedBackIds(account) # {})
    /\ [](Cardinality(ChargedBackIds(account)) <= 1)
    /\ [][/\ account.locked => account'.locked
          /\ ChargedBackIds(account) \subseteq ChargedBackIds(account')]_vars

\* C37 witness: the account was locked by the chargeback of one deposit while
\* the dispute of another was in progress, and a later Chargeback of that
\* other one was refused.
C37_Witness ==
    /\ account.locked
    /\ Cardinality(ChargedBackIds(account)) = 1
    /\ InProgress(account) # {}
    /\ lastTx.transaction_type = "Chargeback"
    /\ lastTx.transaction_id \in InProgress(account)
    /\ lastResult = "AccountLocked"

\* C10: after every successfully applied event available, held and
\* available + held are representable, and total() is exactly available + held.
C10_TotalExact ==
    lastResult = "Ok" =>
        /\ Representable(account.available)
        /\ Representable(account.held)
        /\ Representable(account.available + account.held)
        /\ total(account) = account.available + account.held

----------------------------------------------------------------------------
(* Ledger claims, checked under AuditSpec *)

\* The status recorded for the last transaction's id before it was applied.
StatusBefore ==
    IF lastTx.transaction_id \in DOMAIN before.disputes
    THEN before.disputes[lastTx.transaction_id] ELSE "NotDisputed"

\* C11: conservation. available + held of the account equals the accepted
\* deposits minus the accepted withdrawals minus the successful chargebacks;
\* a rejected event, an Overflow one included, contributes nothing.
C11_Conservation == account.available + account.held = net

\* C12: ledger exactness, as stated. The ledger maps exactly the ids of the
\* accepted deposits to their amounts, zero amounts included; a Deposit whose
\* id is already in the ledger is rejected with DuplicateTransaction and leaves
\* available and the ledger unchanged; withdrawals and rejected deposits never
\* add an entry.
C12_LedgerExactness ==
    /\ account.ledger = acceptedDeposits
    /\ (lastTx.transaction_type = "Deposit"
          /\ lastTx.transaction_id \in DOMAIN before.ledger)
        => /\ lastResult = "DuplicateTransaction"
           /\ account.available = before.available
           /\ account.ledger = before.ledger
    /\ (\/ lastTx.transaction_type = "Withdrawal"
        \/ lastTx.transaction_type = "Deposit" /\ lastResult # "Ok")
        => account.ledger = before.ledger

\* C12, amended: the same, except that on a locked account the duplicate
\* Deposit is rejected with AccountLocked, the pre-check of apply coming first.
C12_LedgerExactnessUnlessLocked ==
    /\ account.ledger = acceptedDeposits
    /\ (lastTx.transaction_type = "Deposit"
          /\ lastTx.transaction_id \in DOMAIN before.ledger)
        => /\ lastResult = IF before.locked THEN "AccountLocked"
                                             ELSE "DuplicateTransaction"
           /\ account.available = before.available
           /\ account.ledger = before.ledger
    /\ (\/ lastTx.transaction_type = "Withdrawal"
        \/ lastTx.transaction_type = "Deposit" /\ lastResult # "Ok")
        => account.ledger = before.ledger

\* C12 witness: a duplicate Deposit was rejected on an unlocked account whose
\* ledger holds a zero-amount deposit, after a withdrawal had been accepted.
C12_Witness ==
    /\ lastTx.transaction_type = "Deposit"
    /\ lastTx.transaction_id \in DOMAIN before.ledger
    /\ lastResult = "DuplicateTransaction"
    /\ \E tx \in DOMAIN account.ledger : account.ledger[tx] = 0
    /\ acceptedWithdrawals # {}

\* C13, as stated: a Resolve or Chargeback changes the account only if the
\* status recorded for its id is InProgress, which is the case exactly when the
\* last successful dispute-family event for the id was a Dispute; otherwise it
\* is a no-op returning DisputeNotFound when no dispute is recorded and
\* DisputeNotInProgress when the status is Resolved; a Chargeback on a
\* never-disputed deposit does not lock the account.
C13_OnlyInProgress ==
    /\ \A tx \in 1..MaxTx :
          (tx \in DOMAIN account.disputes /\ account.disputes[tx] = "InProgress")
          <=> (tx \in DOMAIN lastFamily /\ lastFamily[tx] = "Dispute")
    /\ lastTx.transaction_type \in {"Resolve", "Chargeback"} =>
          /\ account # before => StatusBefore = "InProgress"
          /\ StatusBefore = "NotDisputed"
               => (lastResult = "DisputeNotFound" /\ account = before)
          /\ StatusBefore = "Resolved"
               => (lastResult = "DisputeNotInProgress" /\ account = before)
          /\ (lastTx.transaction_type = "Chargeback" /\ StatusBefore = "NotDisputed")
               => ~account.locked

\* C13, amended: the same, except that on a locked account the no-op returns
\* AccountLocked whatever the recorded status is.
C13_OnlyInProgressUnlessLocked ==
    /\ \A tx \in 1..MaxTx :
          (tx \in DOMAIN account.disputes /\ account.disputes[tx] = "InProgress")
          <=> (tx \in DOMAIN lastFamily /\ lastFamily[tx] = "Dispute")
    /\ lastTx.transaction_type \in {"Resolve", "Chargeback"} =>
          /\ account # before => StatusBefore = "InProgress"
          /\ StatusBefore = "NotDisputed"
               => /\ lastResult = IF before.locked THEN "AccountLocked"
                                                    ELSE "DisputeNotFound"
                  /\ account = before
          /\ StatusBefore = "Resolved"
               => /\ lastResult = IF before.locked THEN "AccountLocked"
                                                    ELSE "DisputeNotInProgress"
                  /\ account = before
          /\ (lastTx.transaction_type = "Chargeback" /\ StatusBefore = "NotDisputed")
               => account.locked = before.locked

\* C13 witness: a Chargeback on a resolved dispute was refused with
\* DisputeNotInProgress and left the account unlocked.
C13_Witness ==
    /\ lastTx.transaction_type = "Chargeback"
    /\ StatusBefore = "Resolved"
    /\ lastResult = "DisputeNotInProgress"
    /\ ~account.locked

\* C14, as stated: a Dispute whose id is the id of an accepted Withdrawal
\* returns TransactionNotFound and leaves available, held and disputes
\* unchanged, whatever events preceded it.
C14_WithdrawalNotDisputable ==
    (lastTx.transaction_type = "Dispute"
      /\ lastTx.transaction_id \in acceptedWithdrawals)
    => /\ lastResult = "TransactionNotFound"
       /\ account.available = before.available
       /\ account.held = before.held
       /\ account.disputes = before.disputes

\* C14, amended: a Dispute whose id is the id of an accepted Withdrawal and of
\* no accepted deposit never succeeds and leaves available, held and disputes
\* unchanged; it returns TransactionNotFound, or AccountLocked on a locked
\* account.
C14_WithdrawalOnlyNotDisputable ==
    (lastTx.transaction_type = "Dispute"
      /\ lastTx.transaction_id \in acceptedWithdrawals
      /\ lastTx.transaction_id \notin DOMAIN acceptedDeposits)
    => /\ lastResult = IF before.locked THEN "AccountLocked"
                                         ELSE "TransactionNotFound"
       /\ account.available = before.available
       /\ account.held = before.held
       /\ account.disputes = before.disputes

\* C14 witness: the id of an accepted withdrawal, of no deposit, was disputed
\* on an unlocked account that holds a deposit and an open dispute.
C14_Witness ==
    /\ lastTx.transaction_type = "Dispute"
    /\ lastTx.transaction_id \in acceptedWithdrawals
    /\ lastTx.transaction_id \notin DOMAIN acceptedDeposits
    /\ lastResult = "TransactionNotFound"
    /\ account.ledger # <<>>
    /\ account.disputes # <<>>

----------------------------------------------------------------------------
(* Scenario claims, checked under ScenarioSpec *)

\* to_string() of a Monetary that is not the minimum
to_string(v) == fmt_with(v, IF v < 0 THEN -v ELSE v)

\* C15, as stated: the dispute sequence leaves client 1 with
\* available = 150.0000, held = 0, total = 150.0000 and locked = true.
C15_Scenario3Locked ==
    played = DisputeSequence =>
        /\ to_string(account.available) = <<"1", "5", "0", ".", "0", "0", "0", "0">>
        /\ account.held = 0
        /\ to_string(total(account)) = <<"1", "5", "0", ".", "0", "0", "0", "0">>
        /\ account.locked

\* C15, amended: the dispute sequence leaves client 1 with
\* available = 160.0000, held = 0, total = 160.0000 and locked = false.
C15_Scenario3Unlocked ==
    played = DisputeSequence =>
        /\ to_string(account.available) = <<"1", "6", "0", ".", "0", "0", "0", "0">>
        /\ account.held = 0
        /\ to_string(account.held) = <<"0", ".", "0", "0", "0", "0">>
        /\ to_string(total(account)) = <<"1", "6", "0", ".", "0", "0", "0", "0">>
        /\ ~account.locked

\* C15 witness: the whole dispute sequence was applied, its chargeback of the
\* never-disputed deposit 2 refused and its trailing deposit accepted.
C15_Witness ==
    /\ played = DisputeSequence
    /\ script = <<>>
    /\ lastResult = "Ok"
    /\ 2 \notin DOMAIN account.disputes
    /\ 3 \in DOMAIN account.ledger

----------------------------------------------------------------------------
(* Monetary claims, checked under MonetarySpec *)

\* C20: round trip. For every Monetary over the whole signed range, the
\* minimum included, formatting succeeds and parsing the text gives the same
\* Monetary back.
C20_RoundTrip ==
    /\ mon_pc # "panicked"
    /\ mon_pc = "done" => parsed = MonetaryOk(monetary)

\* A string of digits, lo to hi of them.
IsDigits(s, lo, hi) ==
    /\ Len(s) >= lo
    /\ Len(s) <= hi
    /\ \A i \in 1..Len(s) : IsDigit(s[i])

\* An optional leading + or -, one or more digits, and optionally a '.'
\* followed by 0 to DECIMAL_PLACES digits.
IsDecimal(s) ==
    LET unsigned == IF s # <<>> /\ Head(s) \in {"+", "-"} THEN Tail(s) ELSE s
        parts    == split(unsigned, ".")
    IN  /\ Len(parts) <= 2
        /\ IsDigits(parts[1], 1, Len(unsigned))
        /\ Len(parts) = 2 => IsDigits(parts[2], 0, DECIMAL_PLACES)

\* The count a decimal stands for is a Monetary: within the signed range.
DecimalInRange(s) ==
    LET negative == s # <<>> /\ Head(s) = "-"
        unsigned == IF s # <<>> /\ Head(s) \in {"+", "-"} THEN Tail(s) ELSE s
        parts    == split(unsigned, ".")
        integer  == Magnitude(parts[1], 0)
        fraction == IF Len(parts) = 2
                    THEN Magnitude(parts[2] \o Zeros(DECIMAL_PLACES - Len(parts[2])), 0)
                    ELSE 0
    IN  /\ integer <= (-I64_MIN) \div SCALE
        /\ IF negative THEN -(integer * SCALE + fraction) >= I64_MIN
                        ELSE integer * SCALE + fraction <= I64_MAX

\* C34: checked_add and checked_sub return the exact sum or difference when
\* it fits in the signed count and None (Overflow) otherwise, never the
\* wrapped value; += and -= store the exact result when it fits and leave the
\* left operand unchanged when it would overflow.
C34_CheckedArithmetic ==
    LET sum == arith.lhs + arith.rhs
        difference == arith.lhs - arith.rhs
        exact == IF arith.op \in {"checked_add", "add_assign"} THEN sum ELSE difference
    IN  /\ arith.op \in {"checked_add", "checked_sub"}
              => /\ arith.result = IF Representable(exact) THEN Some(exact) ELSE None
                 /\ ~Representable(exact) => arith.result # Some(wrapping(exact))
                 /\ arith.after = arith.lhs
        /\ arith.op \in {"add_assign", "sub_assign"}
              => /\ arith.after = IF Representable(exact) THEN exact ELSE arith.lhs
                 /\ Representable(arith.after)

\* C34 witness: the largest value += a positive one overflowed and the left
\* operand is as it was.
C34_Witness ==
    /\ arith.op = "add_assign"
    /\ arith.lhs = I64_MAX
    /\ arith.rhs > 0
    /\ arith.after = arith.lhs

\* C21: parse accepts exactly the texts that, trimmed, are an optional sign,
\* one or more digits and optionally a '.' with 0 to 4 digits (the count
\* they stand for being a Monetary); every other text is an error.
C21_ParseAcceptsDecimals ==
    mon_pc = "done" =>
        (parsed.result = "Ok"
            <=> (IsDecimal(trim(text)) /\ DecimalInRange(trim(text))))

\* Supporting lemma: what from_str accepts beyond the decimals are texts with
\* a sign at the head of the fraction, and it rejects no decimal in range.
ParseAcceptsSignedFraction ==
    mon_pc = "done" =>
        LET value == trim(text)
            parts == split(value, ".")
        IN  /\ (parsed.result = "Ok" /\ ~IsDecimal(value))
                => (Len(parts) = 2 /\ parts[2] # <<>> /\ Head(parts[2]) \in {"+", "-"})
            /\ (IsDecimal(value) /\ DecimalInRange(value)) => parsed.result = "Ok"

\* Supporting lemma: the round trip holds for every Monetary but the minimum.
RoundTripAboveMinimum ==
    monetary # I64_MIN => C20_RoundTrip

----------------------------------------------------------------------------
(* Pipeline claims, checked under Spec and FairSpec *)

\* A live worker: spawned, and its final store.save not yet done.
Live(w) == actors[w].pc \in {"load", "recv"}

Loaded(w) == actors[w].pc # "load"

Saved(w) == actors[w].pc \in {"exit", "done"}

SameAccount(v, w) == actors[v].account_id = actors[w].account_id

\* C1: at every moment, every account id has at most one live worker.
C1_OneLiveWorkerPerAccount ==
    \A v, w \in DOMAIN actors :
        (v # w /\ SameAccount(v, w)) => ~(Live(v) /\ Live(w))

\* C2: a worker spawned for an id after an eviction loads the account only
\* after every earlier worker of that id has saved it.
C2_SaveBeforeLoad ==
    \A v, w \in DOMAIN actors :
        (v < w /\ SameAccount(v, w) /\ Loaded(w)) => Saved(v)

RECURSIVE ApplyAll(_, _)
\* The account after applying the transactions of ts in order.
ApplyAll(self, ts) ==
    IF ts = <<>> THEN self ELSE ApplyAll(apply(self, Head(ts)).account, Tail(ts))

\* The store a run leaves when no entry is ever evicted: one worker per id,
\* which starts from a new account and applies the id's events in stream order.
StoreWithoutEviction ==
    [a \in {id \in AccountIds : received[id] # <<>>} |->
        ApplyAll(Account_new(a), received[a])]

\* C3: when run has returned, the store equals the store of the run of the
\* same stream without any eviction.
C3_RehydrationTransparent ==
    engine_pc = "returned" => store = StoreWithoutEviction

\* Supporting C3: a run in which nothing was evicted leaves exactly that store.
NoEvictionReference ==
    (engine_pc = "returned" /\ evictions = 0) => store = StoreWithoutEviction

IsPrefix(s, t) == Len(s) <= Len(t) /\ SubSeq(t, 1, Len(s)) = s

\* C4: for every account id, the events applied so far are, in order, the
\* first events the dispatcher received for that id.
C4_PerAccountOrder ==
    \A a \in AccountIds : IsPrefix(applied[a], received[a])

\* C5: when run has returned, every worker spawned has an empty inbox, has
\* saved its account to the store and has terminated.
C5_GracefulDrain ==
    engine_pc = "returned" =>
        \A w \in DOMAIN actors :
            /\ actors[w].pc = "done"
            /\ actors[w].inbox = <<>>
            /\ actors[w].account_id \in DOMAIN store

\* C5 witness: run returned after two workers of one account id and a worker
\* of another id had been spawned.
C5_Witness ==
    /\ engine_pc = "returned"
    /\ \E v, w \in DOMAIN actors : v # w /\ SameAccount(v, w)
    /\ \E v, w \in DOMAIN actors : ~SameAccount(v, w)

\* C6: under fair scheduling of the reader, the dispatcher and the workers,
\* run eventually returns.
C6_RunReturns == <>(engine_pc = "returned")

\* C6 witness: run returned although entries were evicted in mid-stream and
\* as many workers as there are events were spawned.
C6_Witness ==
    /\ engine_pc = "returned"
    /\ evictions >= 2
    /\ Len(actors) = MaxStream

SeqToSet(s) == {s[i] : i \in DOMAIN s}

\* C7: sender.send never fails, and when run has returned every event the
\* dispatcher received has been applied exactly once.
C7_NoEventLost ==
    /\ dropped = <<>>
    /\ engine_pc = "returned" =>
            \A a \in AccountIds :
                /\ Len(applied[a]) = Len(received[a])
                /\ SeqToSet(applied[a]) = SeqToSet(received[a])

\* C7 witness: run returned after an account whose entry was evicted received
\* several events, spread over more than one worker.
C7_Witness ==
    /\ engine_pc = "returned"
    /\ evictions >= 1
    /\ \E a \in AccountIds :
            /\ Len(received[a]) >= 2
            /\ Cardinality({w \in DOMAIN actors : actors[w].account_id = a}) >= 2

\* The records of s that deserialize, as transactions, in order.
WellFormed(s) ==
    LET ok == SelectSeq(s, LAMBDA r : deserialize(r) # None)
    IN  [i \in 1..Len(ok) |-> Unwrap(deserialize(ok[i]))]

\* The transactions of s for account a, in order.
ForAccount(s, a) == SelectSeq(s, LAMBDA t : t.account_id = a)

\* The records the reader has taken from the file so far.
RecordsRead == SubSeq(stream, 1, Len(stream) - Len(input))

Taken == SubSeq(WellFormed(RecordsRead), 1, Len(WellFormed(RecordsRead)) - Len(channel))

\* C30: backpressure. The channel never holds more than backpressure events;
\* while it is full the reader keeps the well-formed record it is at until
\* the dispatcher has received an event; and no event is dropped for a full
\* channel: the channel holds, in order, the last well-formed records read and
\* the dispatcher has received all those before them.
C30_Backpressure ==
    /\ [](Len(channel) <= backpressure)
    /\ [](/\ Len(channel) <= Len(WellFormed(RecordsRead))
          /\ WellFormed(RecordsRead) = Taken \o channel
          /\ \A a \in AccountIds : received[a] = ForAccount(Taken, a))
    /\ [][(/\ Len(channel) = backpressure
           /\ input # <<>>
           /\ deserialize(Head(input)) # None)
            => (input' = input /\ Len(channel') <= Len(channel))]_vars

\* C30 witness: the channel is full and the reader is at a well-formed
\* record, which it cannot send yet.
C30_Witness ==
    /\ reader_pc = "read"
    /\ Len(channel) = backpressure
    /\ input # <<>>
    /\ deserialize(Head(input)) # None
    /\ ~ENABLED ReaderSend

\* C31: inbox depth is bounded by upstream backpressure. At every moment the
\* events queued in any one worker's inbox number at most backpressure plus
\* the events in flight, counted here as generously as can be: every event
\* the channel holds at that moment.
C31_InboxBounded ==
    \A w \in DOMAIN actors :
        Len(actors[w].inbox) <= backpressure + Len(channel)

\* Supporting C31: what does bound the inbox is the stream. The dispatcher
\* forwards without waiting for the worker, so an inbox can hold every event
\* received for its account and not yet applied.
InboxBoundedByReceived ==
    \A w \in DOMAIN actors :
        Len(actors[w].inbox)
            <= Len(received[actors[w].account_id]) - Len(applied[actors[w].account_id])

Evicted(w) == w \in DOMAIN actors /\ InboxClosed(w) /\ engine_pc = "recv"

\* C33: eviction is not cancellation. An eviction leaves every worker and
\* inbox as they are; an inbox only ever loses its first event, to an apply
\* of that event by its worker; a worker leaves its loop only with an empty
\* inbox, saving the account it holds; and a worker whose entry was evicted in
\* mid-stream goes on to drain its inbox, save and terminate.
C33_EvictionNotCancellation ==
    /\ [][evictions' # evictions => actors' = actors]_vars
    /\ [][\A w \in DOMAIN actors :
            /\ actors'[w].inbox # actors[w].inbox
                  => \/ Len(actors'[w].inbox) = Len(actors[w].inbox) + 1
                        /\ SubSeq(actors'[w].inbox, 1, Len(actors[w].inbox))
                              = actors[w].inbox
                     \/ /\ actors[w].inbox # <<>>
                        /\ actors'[w].inbox = Tail(actors[w].inbox)
                        /\ actors'[w].account
                              = apply(actors[w].account, Head(actors[w].inbox)).account
                        /\ applied'[actors[w].account_id]
                              = Append(applied[actors[w].account_id],
                                       Head(actors[w].inbox))
            /\ (actors[w].pc = "recv" /\ actors'[w].pc # "recv")
                  => /\ actors[w].inbox = <<>>
                     /\ actors[w].account_id \in DOMAIN store'
                     /\ store'[actors[w].account_id] = actors[w].account]_vars
    /\ \A w \in 1..MaxStream :
          Evicted(w) ~> (/\ w \in DOMAIN actors
                         /\ actors[w].pc = "done"
                         /\ actors[w].inbox = <<>>)

\* C33 witness: in mid-stream a worker whose entry was evicted still has
\* forwarded events in its inbox and is applying them.
C33_Witness ==
    /\ evictions >= 1
    /\ \E w \in DOMAIN actors :
          /\ Evicted(w)
          /\ actors[w].pc = "recv"
          /\ Len(actors[w].inbox) = 1
          /\ Len(applied[actors[w].account_id]) >= 1

\* The second run has returned, both files having been opened.
SecondRunReturned == engine_pc = "returned" /\ next_input = None /\ path_ok

\* C35: rehydration across runs. When the run on the second file has
\* returned, the store is the one a run on the concatenation of the two files
\* leaves: every account that has events holds those events applied, in the
\* order of the two files, to a new account.
C35_RehydrationAcrossRuns ==
    SecondRunReturned =>
        \A a \in AccountIds :
            /\ a \in DOMAIN store <=> ForAccount(WellFormed(stream), a) # <<>>
            /\ a \in DOMAIN store
                  => store[a] = ApplyAll(Account_new(a), ForAccount(WellFormed(stream), a))

\* Supporting C35: it holds whenever no entry was evicted in mid-stream in
\* either run, the second file then being applied to what the first run saved.
RehydrationAcrossRunsWithoutEviction ==
    (SecondRunReturned /\ evictions = 0) =>
        /\ \A a \in AccountIds :
              /\ a \in DOMAIN store <=> ForAccount(WellFormed(stream), a) # <<>>
              /\ a \in DOMAIN store
                    => store[a] = ApplyAll(Account_new(a),
                                           ForAccount(WellFormed(stream), a))

\* The well-formed events of the stream for account a.
EventsOf(a) == ForAccount(WellFormed(stream), a)

\* C38: after run has returned on a file it could open, the store holds one
\* entry, under its own id, for every account id that occurs in a well-formed
\* event of the stream and none for any other id; an account none of whose
\* events the ledger could accept (it has no deposit) is stored as a new
\* account: zero available and held, unlocked.
C38_StoreEntries ==
    (engine_pc = "returned" /\ path_ok) =>
        /\ DOMAIN store = {a \in AccountIds : EventsOf(a) # <<>>}
        /\ \A a \in DOMAIN store :
              /\ store[a].account_id = a
              /\ (\A i \in 1..Len(EventsOf(a)) :
                        EventsOf(a)[i].transaction_type # "Deposit")
                    => store[a] = Account_new(a)

\* C38 witness: run returned on a stream with a record that is not well
\* formed, whose only events for account 1 are withdrawals the ledger rejected
\* and which has a deposit for account 2: both accounts are in the store.
C38_Witness ==
    /\ engine_pc = "returned"
    /\ path_ok
    /\ \E i \in 1..Len(stream) : deserialize(stream[i]) = None
    /\ EventsOf(1) # <<>>
    /\ \A i \in 1..Len(EventsOf(1)) : EventsOf(1)[i].transaction_type = "Withdrawal"
    /\ DOMAIN store = {1, 2}
    /\ store[1] = Account_new(1)
    /\ store[2].available > 0

\* C22: account isolation. When run has returned, the stored state of every
\* account is a function of the events carrying its own id alone, namely
\* those events applied in stream order to a new account of that id; events
\* of other accounts and the interleaving of workers do not enter into it.
C22_AccountIsolation ==
    engine_pc = "returned" =>
        \A a \in AccountIds :
            IF received[a] = <<>> THEN a \notin DOMAIN store
            ELSE /\ a \in DOMAIN store
                 /\ store[a] = ApplyAll(Account_new(a), received[a])

\* Supporting lemma: a worker only ever holds, applies and saves events and
\* state of its own account id.
WorkerOwnAccountOnly ==
    /\ \A w \in DOMAIN actors :
          /\ actors[w].account.account_id = actors[w].account_id
          /\ \A i \in 1..Len(actors[w].inbox) :
                actors[w].inbox[i].account_id = actors[w].account_id
    /\ \A a \in DOMAIN store : store[a].account_id = a
    /\ \A a \in AccountIds :
          \A i \in 1..Len(applied[a]) : applied[a][i].account_id = a

\* C19: when the input file cannot be opened, no worker is ever spawned and
\* nothing is put on the channel or into the store, and run returns.
C19_MissingFile ==
    /\ [](~path_ok => (actors = <<>> /\ channel = <<>> /\ store = AccountStorage_new))
    /\ (~path_ok) ~> (engine_pc = "returned")

\* C19 witness: run returned on a file that could not be opened, its records
\* unread.
C19_Witness ==
    /\ ~path_ok
    /\ engine_pc = "returned"
    /\ reader_pc = "done"
    /\ Len(input) = MaxStream
    /\ store = AccountStorage_new

----------------------------------------------------------------------------
(* Storage claims, checked under StorageSpec *)

\* C17: load leaves the store unchanged; once an account has been saved under
\* an id, every later load of the id returns the account last saved, and the
\* id stays in the snapshot iteration.
C17_LoadKeepsStore ==
    /\ storeOp.op = "load" => store = storeBefore
    /\ (storeOp.op = "load" /\ storeOp.account_id \in DOMAIN saved)
        => lastLoad = Some(saved[storeOp.account_id])
    /\ \A account_id \in DOMAIN saved : account_id \in DOMAIN store

----------------------------------------------------------------------------
(* Worker claims, checked under WorkerSpec *)

RECURSIVE ApplyAccepted(_, _)
\* The account after applying, in order, the transactions of ts that are accepted.
ApplyAccepted(self, ts) ==
    IF ts = <<>> THEN self
    ELSE IF apply(self, Head(ts)).result = "Ok"
         THEN ApplyAccepted(apply(self, Head(ts)).account, Tail(ts))
         ELSE ApplyAccepted(self, Tail(ts))

\* C16: worker resilience. A rejected event neither stops nor corrupts the
\* worker: every event sent to it, also after a rejected one, is applied, and
\* the state it saves is the loaded state with the accepted events applied in
\* order.
C16_WorkerResilience ==
    actors[1].pc \in {"exit", "done"} =>
        /\ applied[1] = received[1]
        /\ 1 \in DOMAIN store
        /\ store[1] = ApplyAccepted(Account_new(1), received[1])

\* Supporting lemma: the worker applies every event it was sent, rejected ones
\* included, and saves the result.
WorkerAppliesAll ==
    actors[1].pc \in {"exit", "done"} =>
        /\ applied[1] = received[1]
        /\ 1 \in DOMAIN store
        /\ store[1] = ApplyAll(Account_new(1), received[1])

====
